---- MODULE Spec2Model ----
(***************************************************************************)
(* A model of the OMR sheet processor (backend/main.py,                    *)
(* backend/gemini_service.py): the scoring loops of the upload endpoints,  *)
(* the identity resolution, the multi-crop aggregation loop and the        *)
(* region-processor calls into the vision capability.                      *)
(*                                                                         *)
(* Python values are records tagged with their type (t), so that None,     *)
(* the string "None" and a number stay distinct; a Python str is a         *)
(* sequence of one-character strings, so that strip() and upper() are      *)
(* computed and not assumed.                                               *)
(***************************************************************************)
EXTENDS Integers, Sequences, FiniteSets, TLC

VARIABLES
    request,          \* the inputs of the request last handled by a scoring endpoint
    sheet,            \* the OMRSheet row (or the HTTP error) that request produced
    GEMINI_API_KEY,   \* gemini_service.GEMINI_API_KEY: TRUE when the environment sets it
    call,             \* the last region-processor call and what it gave its caller
    pc,               \* process_multiple_omr_crops: where the handler stands
    idx,              \* process_multiple_omr_crops: regions already processed
    region_results,   \* what process_omr_question_range gave for each processed region
    all_responses,    \* process_multiple_omr_crops: the merged responses
    all_errors,       \* process_multiple_omr_crops: the error list
    uploads,          \* the files of UPLOAD_DIR, by name
    templates,        \* the templates table, by template name
    invocations,      \* the concurrent sheet-processing invocations, step by step
    clock,            \* datetime.utcnow() in microseconds
    earlier_sheets,   \* the sheets earlier runs of the same request stored
    db                \* omr_database.db: the rows of its three tables, in insertion order

scoreVars == <<request, sheet>>
regionVars == <<GEMINI_API_KEY, call>>
aggVars == <<pc, idx, region_results, all_responses, all_errors>>
fileVars == <<uploads, templates>>
concVars == <<invocations, clock, earlier_sheets, db>>
vars == <<request, sheet, GEMINI_API_KEY, call, pc, idx,
          region_results, all_responses, all_errors,
          uploads, templates, invocations, clock, earlier_sheets, db>>

(***************************************************************************)
(* Bounds of the model.                                                    *)
(***************************************************************************)
\* the most entries a response mapping drawn for the scoring endpoints has
MaxResponses == 2
\* the largest total_questions a stored template carries
MaxTotal == 2
\* the most entries one region's result has in the aggregation
MaxRegionEntries == 1

(***************************************************************************)
(* Python values.                                                          *)
(***************************************************************************)
PyNone == [t |-> "none"]
PyS(s) == [t |-> "str", s |-> s]
PyInt(n) == [t |-> "int", n |-> n]

\* bool(v)
Truthy(v) ==
    CASE v.t = "none" -> FALSE
      [] v.t = "str" -> v.s # <<>>
      [] v.t = "int" -> v.n # 0

IsStr(v) == v.t = "str"

Digits == <<"0", "1", "2", "3", "4", "5", "6", "7", "8", "9">>

\* str(v), for None, a str and a one-digit int
PyStr(v) ==
    CASE v.t = "none" -> <<"N", "o", "n", "e">>
      [] v.t = "str" -> v.s
      [] v.t = "int" -> <<Digits[v.n + 1]>>

\* the characters str.strip() removes
Whitespace == {" ", "\t", "\n"}

RECURSIVE LStrip(_)
LStrip(s) == IF s # <<>> /\ Head(s) \in Whitespace THEN LStrip(Tail(s)) ELSE s

RECURSIVE RStrip(_)
RStrip(s) ==
    IF s # <<>> /\ s[Len(s)] \in Whitespace
    THEN RStrip(SubSeq(s, 1, Len(s) - 1))
    ELSE s

\* s.strip()
Strip(s) == RStrip(LStrip(s))

UpperChar(c) ==
    CASE c = "a" -> "A"
      [] c = "b" -> "B"
      [] c = "e" -> "E"
      [] c = "n" -> "N"
      [] c = "o" -> "O"
      [] OTHER -> c

\* s.upper()
Upper(s) == [i \in 1..Len(s) |-> UpperChar(s[i])]

\* d.get(k): the value under exactly the key k, None when there is none
DictGet(d, k) == IF k \in DOMAIN d THEN d[k] ELSE PyNone

\* the dicts with at most n entries, keys in K and values in V
Dicts(K, V, n) ==
    UNION {[S -> V] : S \in {T \in SUBSET K : Cardinality(T) <= n}}

EmptyDict == [k \in {} |-> PyNone]

(***************************************************************************)
(* The scorer.                                                             *)
(***************************************************************************)

\* ClassifySingle without the strip() in its unanswered test
ClassifySingle_BlankCompared(template_answer_key, question_num, student_answer) ==
    LET correct_answer == DictGet(template_answer_key, question_num) IN
    IF ~Truthy(student_answer) THEN "unanswered"
    ELSE IF ~IsStr(student_answer) THEN "raise"
    ELSE IF Upper(Strip(student_answer.s)) = Upper(Strip(PyStr(correct_answer)))
    THEN "correct"
    ELSE "wrong"

\* One pass of the loop body of the single-image paths.
ClassifySingle(template_answer_key, question_num, student_answer) ==
    LET correct_answer == DictGet(template_answer_key, question_num) IN
    IF ~Truthy(student_answer) THEN "unanswered"
    ELSE IF ~IsStr(student_answer) THEN "raise"
    ELSE IF Strip(student_answer.s) = <<>> THEN "unanswered"
    ELSE IF Upper(Strip(student_answer.s)) = Upper(Strip(PyStr(correct_answer)))
    THEN "correct"
    ELSE "wrong"

\* ClassifyCrop comparing without upper()
ClassifyCrop_CaseSensitive(answer_key, question_num, student_answer) ==
    LET correct_answer == DictGet(answer_key, question_num) IN
    IF Truthy(student_answer)
       /\ Strip(PyStr(student_answer)) = Strip(PyStr(correct_answer))
    THEN "correct"
    ELSE "wrong"

\* One pass of the loop body of the crop paths.
ClassifyCrop(answer_key, question_num, student_answer) ==
    LET correct_answer == DictGet(answer_key, question_num) IN
    IF Truthy(student_answer)
       /\ Upper(Strip(PyStr(student_answer))) = Upper(Strip(PyStr(correct_answer)))
    THEN "correct"
    ELSE "wrong"

\* f"{x:.2f}" of x = num / den * 100 with num, den > 0 given as num * 10000 over den:
\* rounded to the nearest hundredth, a tie to the even one.
Fixed2(num, den) ==
    LET q == num \div den
        r == num % den
        h == IF 2 * r > den \/ (2 * r = den /\ q % 2 = 1) THEN q + 1 ELSE q
    IN  ToString(h \div 100) \o "." \o ToString((h % 100) \div 10) \o ToString(h % 10)

\* Percentage with the column default "0%" where there is nothing to divide by
Percentage_ColumnDefault(correct_count, total_questions) ==
    IF total_questions > 0
    THEN Fixed2(correct_count * 10000, total_questions) \o "%"
    ELSE "0%"

\* percentage = (correct_count / total_questions * 100) if total_questions > 0 else 0,
\* stored as f"{percentage:.2f}%"
Percentage(correct_count, total_questions) ==
    IF total_questions > 0
    THEN Fixed2(correct_count * 10000, total_questions) \o "%"
    ELSE "0.00%"

\* how many passes of the single-image loop end in the given bucket
SingleCount(responses, key, bucket) ==
    Cardinality({q \in DOMAIN responses : ClassifySingle(key, q, responses[q]) = bucket})

\* how many passes of the crop loop end in the given bucket
CropCount(responses, key, bucket) ==
    Cardinality({q \in DOMAIN responses : ClassifyCrop(key, q, responses[q]) = bucket})

\* The scoring of upload_omr_sheet and upload_omr_sheet_by_answer_key: the
\* counts, and total_questions taken from the template row.  A pass that
\* raises (strip() of a value that is no str) ends the request with HTTP 500.
SingleScore(responses, template) ==
    LET key == template.answer_key
        correct_count == SingleCount(responses, key, "correct")
    IN  IF SingleCount(responses, key, "raise") > 0
        THEN [status |-> "http500"]
        ELSE [status |-> "ok",
              responses |-> responses,
              correct_count |-> correct_count,
              wrong_count |-> SingleCount(responses, key, "wrong"),
              unanswered_count |-> SingleCount(responses, key, "unanswered"),
              total_questions |-> template.total_questions,
              percentage |-> Percentage(correct_count, template.total_questions)]

\* The scoring of the crop paths: total_questions = len(ak.keys()).
CropScore(responses, answer_key) ==
    LET correct_count == CropCount(responses, answer_key, "correct")
        total_questions == Cardinality(DOMAIN answer_key)
    IN  [status |-> "ok",
         responses |-> responses,
         correct_count |-> correct_count,
         wrong_count |-> CropCount(responses, answer_key, "wrong"),
         total_questions |-> total_questions,
         percentage |-> Percentage(correct_count, total_questions)]

(***************************************************************************)
(* The identity fields of the stored sheet.                                *)
(***************************************************************************)

\* ResolveField looking at the extracted value first
ResolveField_ExtractedFirst(param, extracted_value) ==
    IF Truthy(extracted_value) /\ IsStr(extracted_value)
       /\ Strip(extracted_value.s) # <<>>
    THEN PyS(Strip(extracted_value.s))
    ELSE IF Truthy(param) /\ IsStr(param) /\ Strip(param.s) # <<>>
    THEN PyS(Strip(param.s))
    ELSE PyNone

\* process_cropped_omr_by_answer_key: the query parameter when it is a str
\* that is not blank, else the extracted value under the same test, else None.
ResolveField(param, extracted_value) ==
    IF Truthy(param) /\ IsStr(param) /\ Strip(param.s) # <<>>
    THEN PyS(Strip(param.s))
    ELSE IF Truthy(extracted_value) /\ IsStr(extracted_value)
            /\ Strip(extracted_value.s) # <<>>
    THEN PyS(Strip(extracted_value.s))
    ELSE PyNone

\* process_multiple_omr_crops: the query parameter when it is a str that is
\* not blank, else None; nothing a region returns is looked at.
ParamField(param) ==
    IF Truthy(param) /\ IsStr(param) /\ Strip(param.s) # <<>>
    THEN PyS(Strip(param.s))
    ELSE PyNone

IdentityFields == {"student_name", "roll_number", "exam_date"}

NoParams == [f \in IdentityFields |-> PyNone]

\* what a region-processor call gave: a dict (kind "dict"; a missing key reads
\* as None, a missing "responses" as {}) or an exception (kind "raised")
Raised == [kind |-> "raised"]

ResultDict(responses, fields) ==
    [kind |-> "dict", responses |-> responses, fields |-> fields]

\* the dict a region processor returns from its except branches: no
\* responses, no identity, no other details, and "error" with the message
FailedResult(message) == ResultDict(EmptyDict, NoParams) @@ [error |-> message]

\* result.get("other_details", {})
OtherDetails(result) ==
    IF "other_details" \in DOMAIN result THEN result.other_details ELSE EmptyDict

(***************************************************************************)
(* The scoring endpoints, from the rows and the region result they read    *)
(* to the row they store.                                                  *)
(***************************************************************************)

\* upload_omr_sheet, and the shared tail of upload_omr_sheet_by_answer_key
UploadSheet(template, result) ==
    IF result.kind = "raised"
    THEN [status |-> "http500"]
    ELSE LET scored == SingleScore(result.responses, template) IN
         IF scored.status = "http500"
         THEN scored
         ELSE [scored EXCEPT !.status = "ok"] @@ result.fields
              @@ [other_details |-> OtherDetails(result)]

\* upload_omr_sheet_by_answer_key: the mirror template is the first template
\* that carries the mirror name, or a new one built from the answer key
MirrorTemplate(answer_key, existing) ==
    IF existing.kind = "found"
    THEN existing.template
    ELSE [total_questions |-> Cardinality(DOMAIN answer_key), answer_key |-> answer_key]

UploadSheetByAnswerKey(answer_key, existing, result) ==
    UploadSheet(MirrorTemplate(answer_key, existing), result)

\* process_cropped_by_answer_key: the identity fields are the extracted ones as they come
CroppedSheet(answer_key, result) ==
    IF result.kind = "raised"
    THEN [status |-> "http500"]
    ELSE CropScore(result.responses, answer_key) @@ result.fields
         @@ [other_details |-> OtherDetails(result)]

\* process_cropped_omr_by_answer_key
PreCroppedSheet(answer_key, query, result) ==
    IF result.kind = "raised"
    THEN [status |-> "http500"]
    ELSE CropScore(result.responses, answer_key)
         @@ [f \in IdentityFields |-> ResolveField(query[f], result.fields[f])]
         @@ [other_details |-> OtherDetails(result)]

\* process_multiple_omr_crops, after the region loop
MultiCropSheet(answer_key, query, merged, errors) ==
    CropScore(merged, answer_key)
    @@ [f \in IdentityFields |-> ParamField(query[f])]
    @@ [processing_errors |-> errors]

(***************************************************************************)
(* The inputs the scoring endpoints are run on.                            *)
(***************************************************************************)

\* question numbers as the JSON object keys they arrive as: "1", "01", "2"
Keys == {<<"1">>, <<"0", "1">>, <<"2">>}

\* the question number a key denotes
RECURSIVE QuestionNumber(_)
QuestionNumber(k) ==
    IF k = <<>> THEN 0
    ELSE 10 * QuestionNumber(SubSeq(k, 1, Len(k) - 1))
         + (CHOOSE d \in 0..9 : Digits[d + 1] = k[Len(k)])

\* the values a response can carry: null, "", " ", " a", "B", "none", 1
ResponseValues ==
    {PyNone, PyS(<<>>), PyS(<<" ">>), PyS(<<" ", "a">>), PyS(<<"B">>),
     PyS(<<"n", "o", "n", "e">>), PyInt(1)}

\* the expected answers an answer key can carry: "A ", "b"
KeyValues == {PyS(<<"A", " ">>), PyS(<<"b">>)}

ResponseDicts == Dicts(Keys, ResponseValues, MaxResponses)

\* the questions an answer key can hold
KeyQuestions == {<<"1">>, <<"2">>}

AnswerKeys == UNION {[S -> KeyValues] : S \in SUBSET KeyQuestions}

\* the template rows create_template can have stored: any total_questions with any key
Templates == [total_questions : 0..MaxTotal, answer_key : AnswerKeys]

\* what process_omr_sheet / process_omr_from_image_data can give a scoring endpoint
ScoreResults == {ResultDict(r, NoParams) : r \in ResponseDicts} \cup {Raised}

\* what the lookup of the mirror template by name can find: nothing, the row
\* an earlier request built from this answer key, or a row create_template
\* stored under the same name
StaleTemplate == [total_questions |-> 3, answer_key |-> (<<"1">> :> PyS(<<"b">>))]

MirrorLookups(answer_key) ==
    {[kind |-> "missing"],
     [kind |-> "found",
      template |-> [total_questions |-> Cardinality(DOMAIN answer_key),
                    answer_key |-> answer_key]],
     [kind |-> "found", template |-> StaleTemplate]}

(***************************************************************************)
(* The upload directory and the templates table.                           *)
(***************************************************************************)

\* UPLOAD_DIR / f"{file.filename}": the name is the one the client sent
UploadName(filename) == <<filename>>

\* _save_bytes: f"{prefix}_{ts}{ext}", ts the clock in microseconds and ext
\* ".png" for the crop prefixes
SaveBytesName(prefix, ts) == <<prefix, ts, ".png">>

\* open(path, "wb") and the write: the file holds what the writer wrote,
\* whatever it held; mutated_by keeps who wrote or removed it
WriteFile(dir, name, writer) ==
    [n \in DOMAIN dir \cup {name} |->
        IF n = name
        THEN [exists |-> TRUE, content |-> writer,
              mutated_by |-> (IF name \in DOMAIN dir THEN dir[name].mutated_by ELSE {})
                             \cup {writer}]
        ELSE dir[n]]

\* if file_path.exists(): file_path.unlink()
Unlink(dir, name, writer) ==
    IF name \in DOMAIN dir /\ dir[name].exists
    THEN [dir EXCEPT ![name].exists = FALSE, ![name].mutated_by = @ \cup {writer}]
    ELSE dir

\* the upload paths: the file is written, and removed again by the except
\* branch when the request ends with HTTP 500
AfterUpload(dir, filename, writer, status) ==
    IF status = "http500"
    THEN Unlink(WriteFile(dir, UploadName(filename), writer), UploadName(filename), writer)
    ELSE WriteFile(dir, UploadName(filename), writer)

\* f"AK #{answer_key.id}: {answer_key.name}", for the one answer key of a request
MirrorName == "AK #1: key"

\* db.query(Template).filter(Template.name == template_name).first()
FindTemplate(table, name) ==
    IF name \in DOMAIN table
    THEN [kind |-> "found", template |-> table[name]]
    ELSE [kind |-> "missing"]

\* the mirror template written over whatever row carries its name
WithMirror_Overwrites(table, answer_key) ==
    [n \in DOMAIN table \cup {MirrorName} |->
        IF n = MirrorName
        THEN MirrorTemplate(answer_key, [kind |-> "missing"])
        ELSE table[n]]

\* the mirror template is added when the table has none under its name
WithMirror(table, answer_key) ==
    IF MirrorName \in DOMAIN table
    THEN table
    ELSE [n \in DOMAIN table \cup {MirrorName} |->
            IF n = MirrorName
            THEN MirrorTemplate(answer_key, FindTemplate(table, MirrorName))
            ELSE table[n]]

\* the name of the file a request of the scoring endpoints uploads
Filename(req) == IF "filename" \in DOMAIN req THEN req.filename ELSE "sheet.png"

\* the templates table a request finds: the template it names, or the mirror
\* template its lookup finds
TemplatesOf(req) ==
    IF req.path = "upload" THEN ("template" :> req.template)
    ELSE IF req.path = "upload-by-answer-key" /\ req.existing.kind = "found"
    THEN (MirrorName :> req.existing.template)
    ELSE EmptyDict

NoInvocations == [i \in {} |-> PyNone]

\* init_db on a new file: three tables and no row
NoRows == [templates |-> <<>>, answer_keys |-> <<>>, omr_sheets |-> <<>>]

FilesIdle ==
    /\ uploads = EmptyDict
    /\ templates = TemplatesOf(request)
    /\ invocations = NoInvocations
    /\ clock = 0
    /\ earlier_sheets = <<>>
    /\ db = NoRows

(***************************************************************************)
(* The endpoints as actions: each handles one request and stores its row.  *)
(***************************************************************************)

RegionIdle ==
    GEMINI_API_KEY = TRUE /\ call = [fn |-> "none", outcome |-> [kind |-> "none"]]

AggIdle ==
    /\ pc = "idle"
    /\ idx = 0
    /\ region_results = <<>>
    /\ all_responses = EmptyDict
    /\ all_errors = <<>>

\* the requests each scoring endpoint can be sent, with the rows and the
\* region result the handler reads while it serves them
UploadRequests(rows, results) ==
    {[path |-> "upload", template |-> t, result |-> r] :
     t \in rows, r \in results}

UploadByAnswerKeyRequests(answer_keys, results) ==
    UNION {{[path |-> "upload-by-answer-key", answer_key |-> k, existing |-> e,
             result |-> r] : e \in MirrorLookups(k), r \in results} :
           k \in answer_keys}

CroppedRequests(answer_keys, results) ==
    {[path |-> "cropped", answer_key |-> k, result |-> r] :
     k \in answer_keys, r \in results}

PreCroppedRequests(answer_keys, queries, results) ==
    {[path |-> "pre-cropped", answer_key |-> k, query |-> q, result |-> r] :
     k \in answer_keys, q \in queries, r \in results}

\* a multi-crop request whose region loop has ended with the given merged mapping
MergedRequests(answer_keys, queries, merged) ==
    {[path |-> "multi-crop", answer_key |-> k, query |-> q,
      result |-> ResultDict(m, NoParams)] :
     k \in answer_keys, q \in queries, m \in merged}

NoSheet == [status |-> "none"]

upload_omr_sheet ==
    /\ request.path = "upload"
    /\ sheet = NoSheet
    /\ sheet' = UploadSheet(request.template, request.result)
    /\ uploads' = AfterUpload(uploads, Filename(request), "request", sheet'.status)
    /\ UNCHANGED <<request, regionVars, aggVars, templates, concVars>>

upload_omr_sheet_by_answer_key ==
    /\ request.path = "upload-by-answer-key"
    /\ sheet = NoSheet
    /\ sheet' = UploadSheetByAnswerKey(request.answer_key,
                                       FindTemplate(templates, MirrorName),
                                       request.result)
    /\ templates' = WithMirror(templates, request.answer_key)
    /\ uploads' = AfterUpload(uploads, Filename(request), "request", sheet'.status)
    /\ UNCHANGED <<request, regionVars, aggVars, concVars>>

process_cropped_by_answer_key ==
    /\ request.path = "cropped"
    /\ sheet = NoSheet
    /\ sheet' = CroppedSheet(request.answer_key, request.result)
    /\ uploads' = WriteFile(uploads, SaveBytesName("omr_crop", clock), "request")
    /\ templates' = IF sheet'.status = "http500" THEN templates
                    ELSE WithMirror(templates, request.answer_key)
    /\ UNCHANGED <<request, regionVars, aggVars, concVars>>

process_cropped_omr_by_answer_key ==
    /\ request.path = "pre-cropped"
    /\ sheet = NoSheet
    /\ sheet' = PreCroppedSheet(request.answer_key, request.query, request.result)
    /\ uploads' = WriteFile(uploads, SaveBytesName("omr_crop", clock), "request")
    /\ templates' = IF sheet'.status = "http500" THEN templates
                    ELSE WithMirror(templates, request.answer_key)
    /\ UNCHANGED <<request, regionVars, aggVars, concVars>>

\* process_multiple_omr_crops from the end of its region loop
score_multiple_omr_crops ==
    /\ request.path = "multi-crop"
    /\ sheet = NoSheet
    /\ sheet' = MultiCropSheet(request.answer_key, request.query,
                               request.result.responses, <<>>)
    /\ uploads' = WriteFile(uploads, SaveBytesName("omr_crop", clock), "request")
    /\ templates' = WithMirror(templates, request.answer_key)
    /\ UNCHANGED <<request, regionVars, aggVars, concVars>>

ScoreRequests ==
    UploadRequests(Templates, ScoreResults)
    \cup UploadByAnswerKeyRequests(AnswerKeys, ScoreResults)
    \cup CroppedRequests(AnswerKeys, ScoreResults)
    \cup PreCroppedRequests(AnswerKeys, {NoParams}, ScoreResults)
    \cup MergedRequests(AnswerKeys, {NoParams}, ResponseDicts)

InitScore ==
    request \in ScoreRequests /\ sheet = NoSheet /\ RegionIdle /\ AggIdle /\ FilesIdle

NextScore ==
    \/ upload_omr_sheet
    \/ upload_omr_sheet_by_answer_key
    \/ process_cropped_by_answer_key
    \/ process_cropped_omr_by_answer_key
    \/ score_multiple_omr_crops

SpecScore == InitScore /\ [][NextScore]_vars

(***************************************************************************)
(* Properties of the scorer.                                               *)
(***************************************************************************)

Scored == sheet.status = "ok"

\* the answer key the request's sheet is scored against
KeyUsed ==
    CASE request.path = "upload" -> request.template.answer_key
      [] request.path = "upload-by-answer-key" -> request.answer_key
      [] OTHER -> request.answer_key

\* the mapping the scoring loop looks the expected answers up in
KeyRead ==
    CASE request.path = "upload" -> request.template.answer_key
      [] request.path = "upload-by-answer-key" ->
            MirrorTemplate(request.answer_key, request.existing).answer_key
      [] OTHER -> request.answer_key

Responses == request.result.responses

SinglePath == request.path \in {"upload", "upload-by-answer-key"}

CropPath == request.path \in {"cropped", "pre-cropped", "multi-crop"}

\* a str made of whitespace only (the empty str included)
Blank(v) == IsStr(v) /\ \A i \in 1..Len(v.s) : v.s[i] \in Whitespace

\* s without its leading and trailing whitespace, letters in upper case
RECURSIVE Normal(_)
Normal(s) ==
    IF s = <<>> THEN s
    ELSE IF s[1] \in Whitespace THEN Normal(SubSeq(s, 2, Len(s)))
    ELSE IF s[Len(s)] \in Whitespace THEN Normal(SubSeq(s, 1, Len(s) - 1))
    ELSE [i \in 1..Len(s) |->
            IF s[i] \in {"a", "b", "e", "n", "o"}
            THEN CHOOSE c \in {"A", "B", "E", "N", "O"} : UpperChar(s[i]) = c
            ELSE s[i]]

\* a response value that is a str equal to the expected answer, case and
\* surrounding whitespace aside
Matches(v, expected) == IsStr(v) /\ Normal(v.s) = Normal(expected.s)

\* C3: on every scoring path correct_count + wrong_count <= total_questions.
C3_CountsWithinTotal ==
    Scored => sheet.correct_count + sheet.wrong_count <= sheet.total_questions

\* C4: a response that is not blank, for a question the answer key has no
\* entry for, is counted wrong and never correct: when no response has an
\* entry in the key, nothing is correct and every such response is wrong.
C4_MissingKeyIsWrong ==
    (Scored /\ \A q \in DOMAIN Responses : q \notin DOMAIN KeyRead)
        => /\ sheet.correct_count = 0
           /\ sheet.wrong_count
                >= Cardinality({q \in DOMAIN Responses :
                                  IsStr(Responses[q]) /\ ~Blank(Responses[q])})

\* C5 as stated: when every response value equals the key's value for the same
\* question (case and whitespace aside), correct_count = total_questions and
\* the percentage is "100.00%".
C5_AllMatchingIsFull ==
    (Scored /\ \A q \in DOMAIN Responses :
                  q \in DOMAIN KeyRead /\ Matches(Responses[q], KeyRead[q]))
        => sheet.correct_count = sheet.total_questions /\ sheet.percentage = "100.00%"

\* C5 amended: when the answer key is not empty and the responses hold, under
\* the very key of each answer-key entry and of no other, a non-blank str equal
\* to the expected answer (case and whitespace aside), then correct_count is
\* the number of answer-key entries and wrong_count is 0; on the crop paths,
\* which take total_questions from that number, correct_count =
\* total_questions and the percentage is "100.00%".
C5_CompleteMatchingIsFull ==
    (/\ Scored
     /\ DOMAIN KeyRead # {}
     /\ DOMAIN Responses = DOMAIN KeyRead
     /\ \A q \in DOMAIN Responses :
            ~Blank(Responses[q]) /\ Matches(Responses[q], KeyRead[q]))
        => /\ sheet.correct_count = Cardinality(DOMAIN KeyRead)
           /\ sheet.wrong_count = 0
           /\ CropPath => /\ sheet.correct_count = sheet.total_questions
                          /\ sheet.percentage = "100.00%"

C5_Witness ==
    /\ Scored
    /\ CropPath
    /\ Cardinality(DOMAIN KeyRead) = 2
    /\ DOMAIN Responses = DOMAIN KeyRead
    /\ \A q \in DOMAIN Responses : Matches(Responses[q], KeyRead[q])
    /\ sheet.percentage = "100.00%"

\* C6: scoring never divides by zero: an empty response mapping scores 0
\* correct, 0 wrong and "0.00%" against any key, and a total_questions of 0
\* gives "0.00%" whatever the responses.
C6_NoDivisionByZero ==
    Scored => /\ (DOMAIN Responses = {}) =>
                    /\ sheet.correct_count = 0
                    /\ sheet.wrong_count = 0
                    /\ sheet.percentage = "0.00%"
              /\ (sheet.total_questions = 0) => sheet.percentage = "0.00%"

C6_Witness ==
    /\ Scored
    /\ sheet.total_questions = 0
    /\ sheet.correct_count > 0
    /\ sheet.percentage = "0.00%"

\* C7: on every scoring path total_questions is the number of entries of the
\* answer key the sheet is scored against.
C7_TotalIsKeyCardinality ==
    Scored => sheet.total_questions = Cardinality(DOMAIN KeyUsed)

\* C8: on the single-image paths every response lands in exactly one of
\* unanswered, correct, wrong, and a blank response lands in unanswered: the
\* three counts add up to the number of responses, and correct and wrong
\* together count no blank response.
C8_OneBucketEach ==
    (Scored /\ SinglePath)
        => /\ sheet.correct_count + sheet.wrong_count + sheet.unanswered_count
                = Cardinality(DOMAIN Responses)
           /\ sheet.unanswered_count
                >= Cardinality({q \in DOMAIN Responses : Blank(Responses[q])})
           /\ sheet.correct_count + sheet.wrong_count
                <= Cardinality({q \in DOMAIN Responses : ~Blank(Responses[q])})

C8_Witness ==
    /\ Scored
    /\ SinglePath
    /\ \E q \in DOMAIN Responses : Responses[q] = PyS(<<" ">>)
    /\ sheet.unanswered_count = 1
    /\ sheet.correct_count + sheet.wrong_count = 1

\* C9: expected answers are found by question number, whatever the
\* representation of the key: when every response is a non-blank match of the
\* answer-key entry that denotes the same question number, every response is
\* counted correct.
C9_LookupByQuestionNumber ==
    (Scored /\ \A q \in DOMAIN Responses :
                  /\ ~Blank(Responses[q])
                  /\ \E k \in DOMAIN KeyRead :
                        /\ QuestionNumber(k) = QuestionNumber(q)
                        /\ Matches(Responses[q], KeyRead[k]))
        => sheet.correct_count = Cardinality(DOMAIN Responses)

(***************************************************************************)
(* Identity resolution.                                                    *)
(***************************************************************************)

\* the values a query parameter can carry (Optional[str]): absent, "", " ",
\* "Al", " Al "
ParamValues ==
    {PyNone, PyS(<<>>), PyS(<<" ">>), PyS(<<"A", "l">>), PyS(<<" ", "A", "l", " ">>)}

\* the values an extracted identity field can carry: null or missing, "", " ",
\* "Bob ", 7
ExtractedValues ==
    {PyNone, PyS(<<>>), PyS(<<" ">>), PyS(<<"B", "o", "b", " ">>), PyInt(7)}

IdentityRequests ==
    PreCroppedRequests({EmptyDict}, [IdentityFields -> ParamValues],
                       {ResultDict(EmptyDict, x) : x \in [IdentityFields -> ExtractedValues]})
    \cup MergedRequests({EmptyDict}, [IdentityFields -> ParamValues], {EmptyDict})

InitIdentity ==
    request \in IdentityRequests /\ sheet = NoSheet /\ RegionIdle /\ AggIdle /\ FilesIdle

NextIdentity ==
    \/ process_cropped_omr_by_answer_key
    \/ score_multiple_omr_crops

SpecIdentity == InitIdentity /\ [][NextIdentity]_vars

\* a value that is there: a str with something other than whitespace in it
Present(v) == IsStr(v) /\ ~Blank(v)

\* r is s without its leading and trailing whitespace
TrimmedOf(r, s) ==
    \E i, j \in 0..Len(s) :
        /\ i + j <= Len(s)
        /\ r = SubSeq(s, i + 1, Len(s) - j)
        /\ \A k \in 1..i : s[k] \in Whitespace
        /\ \A k \in (Len(s) - j + 1)..Len(s) : s[k] \in Whitespace
        /\ r # <<>> => (r[1] \notin Whitespace /\ r[Len(r)] \notin Whitespace)

\* C10: each of name, roll number and exam date is resolved on its own: the
\* trimmed explicit value when that is present, else the trimmed extracted
\* value when that is present, else absent.
C10_ExplicitThenExtracted ==
    (Scored /\ request.path \in {"pre-cropped", "multi-crop"})
        => \A f \in IdentityFields :
              LET explicit == request.query[f]
                  extracted_value == request.result.fields[f]
              IN  IF Present(explicit)
                  THEN IsStr(sheet[f]) /\ TrimmedOf(sheet[f].s, explicit.s)
                  ELSE IF Present(extracted_value)
                  THEN IsStr(sheet[f]) /\ TrimmedOf(sheet[f].s, extracted_value.s)
                  ELSE sheet[f] = PyNone

C10_Witness ==
    /\ Scored
    /\ request.path = "pre-cropped"
    /\ request.query.student_name = PyS(<<" ", "A", "l", " ">>)
    /\ request.result.fields.student_name = PyS(<<"B", "o", "b", " ">>)
    /\ sheet.student_name = PyS(<<"A", "l">>)
    /\ request.query.roll_number = PyS(<<>>)
    /\ request.result.fields.roll_number = PyS(<<"B", "o", "b", " ">>)
    /\ sheet.roll_number = PyS(<<"B", "o", "b">>)
    /\ request.query.exam_date = PyNone
    /\ request.result.fields.exam_date = PyNone
    /\ sheet.exam_date = PyNone

(***************************************************************************)
(* The multi-crop aggregation: process_multiple_omr_crops step by step.    *)
(***************************************************************************)

\* len(files) the endpoint insists on
NumRegions == 5

question_ranges == <<<<1, 10>>, <<11, 20>>, <<21, 30>>, <<31, 40>>, <<41, 50>>>>

\* What process_omr_question_range can give for one region: an exception, a
\* dict with an "error" entry (and whatever else the payload held), a dict
\* whose "responses" is a mapping, or a payload of another shape (its
\* "responses" a list), which the loop's .items() raises on.
RaisedWith(message) == [kind |-> "raised", message |-> message]

ErrorResult(message, responses) ==
    [kind |-> "error", message |-> message, responses |-> responses]

OkResult(responses) == [kind |-> "ok", responses |-> responses]

MalformedResult ==
    [kind |-> "malformed", message |-> "'list' object has no attribute 'items'"]

\* the entries a region's payload can hold: question "1" as "A" or "B",
\* question "11" as "A"
RegionDicts ==
    {d \in Dicts({<<"1">>, <<"1", "1">>}, {PyS(<<"A">>), PyS(<<"B">>)}, MaxRegionEntries) :
        <<"1", "1">> \in DOMAIN d => d[<<"1", "1">>] = PyS(<<"A">>)}

RegionResults ==
    {OkResult(d) : d \in RegionDicts}
    \cup {RaisedWith("GEMINI_API_KEY not found in environment variables"),
          ErrorResult("Expecting value: line 1 column 1 (char 0)",
                      (<<"1", "1">> :> PyS(<<"B">>))),
          MalformedResult}

\* MergeResponses keeping only what the region at hand returned
MergeResponses_Replaces(merged, responses) == responses

\* for q_num, answer in ...items(): all_responses[q_num] = answer
MergeResponses(merged, responses) ==
    [q \in DOMAIN merged \cup DOMAIN responses |->
        IF q \in DOMAIN responses THEN responses[q] ELSE merged[q]]

\* f"Questions {start_q}-{end_q}: {message}"
ErrorEntry(range, message) ==
    "Questions " \o ToString(range[1]) \o "-" \o ToString(range[2]) \o ": " \o message

\* RegionStep that merges what an error result carries as well
RegionStep_MergesErrorResult(merged, errors, region, result) ==
    IF result.kind \in {"raised", "malformed"}
    THEN [raised |-> FALSE, all_responses |-> merged,
          all_errors |-> Append(errors, ErrorEntry(question_ranges[region], result.message))]
    ELSE IF result.kind = "error"
    THEN [raised |-> FALSE, all_responses |-> MergeResponses(merged, result.responses),
          all_errors |-> Append(errors, ErrorEntry(question_ranges[region], result.message))]
    ELSE [raised |-> FALSE, all_responses |-> MergeResponses(merged, result.responses),
          all_errors |-> errors]

\* One pass of the region loop on what the region call gave: the try, the
\* "error" test, the merge and the except.  raised says whether the pass lets
\* an exception out of the loop.
RegionStep(merged, errors, region, result) ==
    IF result.kind \in {"raised", "malformed", "error"}
    THEN [raised |-> FALSE, all_responses |-> merged,
          all_errors |-> Append(errors, ErrorEntry(question_ranges[region], result.message))]
    ELSE [raised |-> FALSE, all_responses |-> MergeResponses(merged, result.responses),
          all_errors |-> errors]

\* the multi-crop requests: an answer key, the query parameters and the
\* number of files uploaded
MultiCropRequests(answer_keys, queries, file_counts) ==
    {[path |-> "multi-crop", answer_key |-> k, query |-> q, files |-> n] :
     k \in answer_keys, q \in queries, n \in file_counts}

\* start_multiple_omr_crops turning away only a request with too many files
start_multiple_omr_crops_AtMost ==
    /\ pc = "start"
    /\ pc' = IF request.files > NumRegions THEN "http400" ELSE "regions"
    /\ UNCHANGED <<request, sheet, regionVars, idx, region_results, all_responses,
                   all_errors, fileVars, concVars>>

\* the answer key is loaded and the number of files checked
start_multiple_omr_crops ==
    /\ pc = "start"
    /\ pc' = IF request.files # NumRegions THEN "http400" ELSE "regions"
    /\ UNCHANGED <<request, sheet, regionVars, idx, region_results, all_responses,
                   all_errors, fileVars, concVars>>

\* one pass of the region loop, with the call to process_omr_question_range
process_region ==
    /\ pc = "regions"
    /\ idx < NumRegions
    /\ \E result \in RegionResults :
          LET step == RegionStep(all_responses, all_errors, idx + 1, result) IN
          /\ region_results' = Append(region_results, result)
          /\ pc' = IF step.raised THEN "http500" ELSE "regions"
          /\ idx' = IF step.raised THEN idx ELSE idx + 1
          /\ all_responses' = step.all_responses
          /\ all_errors' = step.all_errors
    /\ UNCHANGED <<request, sheet, regionVars, fileVars, concVars>>

\* after the loop: the first crop is saved, the mirror template found or
\* added, and the sheet scored, its identity fields set, and stored
finish_multiple_omr_crops ==
    /\ pc = "regions"
    /\ idx = NumRegions
    /\ uploads' = WriteFile(uploads, SaveBytesName("omr_crop", clock), "request")
    /\ templates' = WithMirror(templates, request.answer_key)
    /\ sheet' = MultiCropSheet(request.answer_key, request.query, all_responses,
                               all_errors)
    /\ pc' = "done"
    /\ UNCHANGED <<request, regionVars, idx, region_results, all_responses, all_errors,
                   concVars>>

InitAgg ==
    /\ request \in MultiCropRequests({(<<"1">> :> PyS(<<"A">>))}, {NoParams},
                                     {NumRegions - 1, NumRegions, NumRegions + 1})
    /\ sheet = NoSheet
    /\ RegionIdle
    /\ pc = "start"
    /\ idx = 0
    /\ region_results = <<>>
    /\ all_responses = EmptyDict
    /\ all_errors = <<>>
    /\ FilesIdle

NextAgg ==
    \/ start_multiple_omr_crops
    \/ process_region
    \/ finish_multiple_omr_crops

SpecAgg == InitAgg /\ [][NextAgg]_vars

\* the regions processed so far whose call failed, and those whose call succeeded
FailedRegions == {i \in 1..Len(region_results) : region_results[i].kind # "ok"}

SucceededRegions == {i \in 1..Len(region_results) : region_results[i].kind = "ok"}

\* the successful regions that returned an entry for question q
Returning(q) == {i \in SucceededRegions : q \in DOMAIN region_results[i].responses}

\* the failed regions in region order
RECURSIVE FailedUpTo(_)
FailedUpTo(n) ==
    IF n = 0 THEN <<>>
    ELSE IF n \in FailedRegions THEN Append(FailedUpTo(n - 1), n)
    ELSE FailedUpTo(n - 1)

RangeLabels ==
    <<"Questions 1-10: ", "Questions 11-20: ", "Questions 21-30: ",
      "Questions 31-40: ", "Questions 41-50: ">>

\* the loop lets no exception out, and the error list holds one entry per
\* failed region, in region order, naming its range and carrying its message
ErrorsAsClaimed ==
    /\ pc # "http500"
    /\ idx = Len(region_results)
    /\ Len(all_errors) = Cardinality(FailedRegions)
    /\ \A n \in 1..Len(all_errors) :
          LET i == FailedUpTo(Len(region_results))[n] IN
          all_errors[n] = RangeLabels[i] \o region_results[i].message
    /\ (pc = "done") => (idx = NumRegions /\ sheet.status = "ok"
                         /\ sheet.responses = all_responses
                         /\ sheet.processing_errors = all_errors)

\* C1 as stated: whatever regions fail, the aggregation does not raise, the
\* merged responses hold every entry of every successful region and nothing
\* else, and the error list holds one entry per failed region naming its range.
C1_EveryEntryOfEverySuccess ==
    /\ ErrorsAsClaimed
    /\ \A i \in SucceededRegions : \A q \in DOMAIN region_results[i].responses :
          q \in DOMAIN all_responses /\ all_responses[q] = region_results[i].responses[q]
    /\ \A q \in DOMAIN all_responses : Returning(q) # {}

\* C1 amended: whatever regions fail, the aggregation does not raise, the
\* merged responses hold exactly the questions the successful regions
\* returned, each with the answer of the last successful region (in region
\* order) that returned it, so every entry of every successful region when
\* no two of them return the same question, and nothing a failed region
\* carried; the error list holds one entry per failed region naming its range.
C1_LastSuccessWins ==
    /\ ErrorsAsClaimed
    /\ DOMAIN all_responses = {q \in {<<"1">>, <<"1", "1">>} : Returning(q) # {}}
    /\ \A q \in DOMAIN all_responses :
          LET last == CHOOSE i \in Returning(q) : \A j \in Returning(q) : j <= i IN
          all_responses[q] = region_results[last].responses[q]

C1_Witness ==
    /\ pc = "done"
    /\ FailedRegions = {3}
    /\ region_results[3].kind = "raised"
    /\ DOMAIN region_results[1].responses = {<<"1">>}
    /\ DOMAIN region_results[2].responses = {<<"1", "1">>}
    /\ DOMAIN all_responses = {<<"1">>, <<"1", "1">>}
    /\ Len(all_errors) = 1

(***************************************************************************)
(* The region processors of gemini_service.py, from the text the vision    *)
(* capability returns to the value handed to the caller.                   *)
(***************************************************************************)

Min(S) == CHOOSE x \in S : \A y \in S : x <= y

Max(S) == CHOOSE x \in S : \A y \in S : y <= x

\* text.find(pattern, start): the first index (from 0) at or after start where
\* pattern begins, -1 when there is none
Find(text, pattern, start) ==
    LET hits == {i \in start..(Len(text) - Len(pattern)) :
                    SubSeq(text, i + 1, i + Len(pattern)) = pattern}
    IN  IF hits = {} THEN -1 ELSE Min(hits)

\* text[from:to] for from >= 0; a negative to counts from the end
Slice(text, from, to) ==
    LET stop == IF to < 0 THEN Max({Len(text) + to, 0}) ELSE Min({to, Len(text)})
    IN  IF from >= stop THEN <<>> ELSE SubSeq(text, from + 1, stop)

\* the fence that opens and closes a block: three backticks, each written "~" here
Fence == <<"~", "~", "~">>

FenceJson == Fence \o <<"j", "s", "o", "n">>

\* The fenced block of the text, language-tagged first, else the text itself.
FencedPayload(text) ==
    IF Find(text, FenceJson, 0) >= 0
    THEN LET json_start == Find(text, FenceJson, 0) + 7
             json_end == Find(text, Fence, json_start)
         IN  Strip(Slice(text, json_start, json_end))
    ELSE IF Find(text, Fence, 0) >= 0
    THEN LET json_start == Find(text, Fence, 0) + 3
             json_end == Find(text, Fence, json_start)
         IN  Strip(Slice(text, json_start, json_end))
    ELSE text

\* the whitespace a JSON document may hold between its tokens
JsonWhitespace == {" ", "\t", "\n"}

\* the first index at or after i that holds no JSON whitespace
SkipWhitespace(s, i) ==
    Min({j \in i..(Len(s) + 1) : j > Len(s) \/ s[j] \notin JsonWhitespace})

\* json.loads over the characters of the model: an object of members
\* "key": value, an array of values, a string (no escape, and no control
\* character in it), and a number written with the digit 1.  A value is
\* [type, items] (dict, the last of two equal keys wins), [type, elems]
\* (list), [type, s] (str) or [type, n] (int, n its digits).
NoParse == [ok |-> FALSE]

\* the string that opens with the quote at i
ParseString(s, i) ==
    LET closes == {j \in (i + 1)..Len(s) : s[j] = "\""} IN
    IF closes = {} THEN NoParse
    ELSE LET j == Min(closes) IN
         IF \E k \in (i + 1)..(j - 1) : s[k] \in {"\n", "\t"}
         THEN NoParse
         ELSE [ok |-> TRUE, next |-> j + 1,
               value |-> [type |-> "str", s |-> SubSeq(s, i + 1, j - 1)]]

RECURSIVE ParseValue(_, _)
RECURSIVE ParseMembers(_, _, _)
RECURSIVE ParseElements(_, _, _)

\* the members of an object from the key that opens at i, acc the members so far
ParseMembers(s, i, acc) ==
    IF i > Len(s) \/ s[i] # "\"" THEN NoParse
    ELSE LET key == ParseString(s, i) IN
         IF ~key.ok THEN NoParse
         ELSE LET j == SkipWhitespace(s, key.next) IN
              IF j > Len(s) \/ s[j] # ":" THEN NoParse
              ELSE LET v == ParseValue(s, SkipWhitespace(s, j + 1)) IN
                   IF ~v.ok THEN NoParse
                   ELSE LET m == SkipWhitespace(s, v.next)
                            items == [k \in DOMAIN acc \cup {key.value.s} |->
                                        IF k = key.value.s THEN v.value ELSE acc[k]]
                        IN  IF m > Len(s) THEN NoParse
                            ELSE IF s[m] = "}"
                            THEN [ok |-> TRUE, next |-> m + 1,
                                  value |-> [type |-> "dict", items |-> items]]
                            ELSE IF s[m] = ","
                            THEN ParseMembers(s, SkipWhitespace(s, m + 1), items)
                            ELSE NoParse

\* the elements of an array from the value that begins at i, acc the elements so far
ParseElements(s, i, acc) ==
    LET v == ParseValue(s, i) IN
    IF ~v.ok THEN NoParse
    ELSE LET m == SkipWhitespace(s, v.next)
             elems == Append(acc, v.value)
         IN  IF m > Len(s) THEN NoParse
             ELSE IF s[m] = "]"
             THEN [ok |-> TRUE, next |-> m + 1,
                   value |-> [type |-> "list", elems |-> elems]]
             ELSE IF s[m] = ","
             THEN ParseElements(s, SkipWhitespace(s, m + 1), elems)
             ELSE NoParse

\* the JSON value that begins at i
ParseValue(s, i) ==
    IF i > Len(s) THEN NoParse
    ELSE IF s[i] = "{"
    THEN LET j == SkipWhitespace(s, i + 1) IN
         IF j <= Len(s) /\ s[j] = "}"
         THEN [ok |-> TRUE, next |-> j + 1,
               value |-> [type |-> "dict", items |-> EmptyDict]]
         ELSE ParseMembers(s, j, EmptyDict)
    ELSE IF s[i] = "["
    THEN LET j == SkipWhitespace(s, i + 1) IN
         IF j <= Len(s) /\ s[j] = "]"
         THEN [ok |-> TRUE, next |-> j + 1, value |-> [type |-> "list", elems |-> <<>>]]
         ELSE ParseElements(s, j, <<>>)
    ELSE IF s[i] = "\""
    THEN ParseString(s, i)
    ELSE IF s[i] = "1"
    THEN LET j == Min({k \in (i + 1)..(Len(s) + 1) : k > Len(s) \/ s[k] # "1"}) IN
         [ok |-> TRUE, next |-> j, value |-> [type |-> "int", n |-> SubSeq(s, i, j - 1)]]
    ELSE NoParse

JSONDecodeError == [ok |-> FALSE]

\* json.loads(s): the value of the document, or JSONDecodeError when s holds
\* no value or something after it
json_loads(s) ==
    LET v == ParseValue(s, SkipWhitespace(s, 1)) IN
    IF ~v.ok \/ SkipWhitespace(s, v.next) <= Len(s)
    THEN JSONDecodeError
    ELSE [ok |-> TRUE, type |-> v.value.type, value |-> v.value]

\* re.search(r'\{.*\}', text, re.DOTALL): from the first "{" to the last "}" after it
BraceMatch(text) ==
    LET opens == {i \in 1..Len(text) : text[i] = "{"}
        closes == {j \in 1..Len(text) : text[j] = "}"}
    IN  IF opens = {} \/ closes = {} \/ Max(closes) < Min(opens)
        THEN [found |-> FALSE]
        ELSE [found |-> TRUE, text |-> SubSeq(text, Min(opens), Max(closes))]

\* what a call hands its caller: a value, or an exception
Returned(value) == [kind |-> "returned", value |-> value]

\* the dict the except branches build: it carries "error"
ErrorDict == [type |-> "dict", error |-> TRUE]

\* the dict process_omr_sheet builds when no parse succeeds: it carries
\* "error" and, as "raw_response", the text it tried to parse
ParseErrorDict(response_text) ==
    [type |-> "dict", error |-> TRUE, raw_response |-> response_text]

\* a parsed document as its caller sees it: error says whether it is a dict
\* that holds "error"
Parsed(document) ==
    [type |-> document.type,
     error |-> (document.type = "dict"
                /\ <<"e", "r", "r", "o", "r">> \in DOMAIN document.value.items),
     value |-> document.value]

\* the capability: Image.open, generate_content and response.text either
\* raise or give a text
CapabilityRaises == [kind |-> "raises"]

CapabilityText(text) == [kind |-> "text", text |-> text]

\* Image.open raises on the image bytes, before the capability is reached
ImageOpenRaises == [kind |-> "raises", at |-> "Image.open"]

\* GenerateContentCalls with a second generate_content after one that raised
GenerateContentCalls_Retries(api_key, capability) ==
    IF ~api_key \/ capability = ImageOpenRaises THEN 0
    ELSE IF capability.kind = "raises" THEN 2
    ELSE 1

\* the model.generate_content calls of one region-processor call: none when
\* the key check or Image.open raises first, else the one of the try block
GenerateContentCalls(api_key, capability) ==
    IF ~api_key \/ capability = ImageOpenRaises THEN 0 ELSE 1

process_omr_sheet_outcome(api_key, capability) ==
    IF ~api_key THEN Raised
    ELSE IF capability.kind = "raises" THEN Returned(ErrorDict)
    ELSE LET response_text == FencedPayload(Strip(capability.text))
             document == json_loads(response_text)
             json_match == BraceMatch(response_text)
         IN  IF document.ok THEN Returned(Parsed(document))
             ELSE IF json_match.found /\ json_loads(json_match.text).ok
             THEN Returned(Parsed(json_loads(json_match.text)))
             ELSE Returned(ParseErrorDict(response_text))

extract_name_from_image_outcome(api_key, capability) ==
    IF ~api_key THEN Raised
    ELSE IF capability.kind = "raises" THEN Returned(ErrorDict)
    ELSE LET document == json_loads(FencedPayload(Strip(capability.text))) IN
         IF document.ok THEN Returned(Parsed(document)) ELSE Returned(ErrorDict)

process_omr_from_image_data_outcome(api_key, capability) ==
    IF ~api_key THEN Raised
    ELSE IF capability.kind = "raises" THEN Returned(ErrorDict)
    ELSE LET document == json_loads(FencedPayload(Strip(capability.text))) IN
         IF document.ok THEN Returned(Parsed(document)) ELSE Returned(ErrorDict)

\* the payloads the capability can write: {}, an unclosed {, nothing, [1],
\* { }x, {"x":1}, and {"x":"~~~"} whose string holds a fence
Payloads ==
    {<<"{", "}">>, <<"{">>, <<>>, <<"[", "1", "]">>, <<"{", " ", "}", "x">>,
     <<"{", "\"", "x", "\"", ":", "1", "}">>,
     <<"{", "\"", "x", "\"", ":", "\"", "~", "~", "~", "\"", "}">>}

ProseBefore == {<<>>, <<"x", " ">>}

OpeningFences == {FenceJson \o <<"\n">>, Fence}

ClosingFences == {<<"\n">> \o Fence}

ProseAfter == {<<>>, <<" ", "x">>}

\* the texts the capability is run on: prose, an opening fence, a payload, a
\* closing fence and more prose, each there or not
Texts ==
    {a \o b \o c \o d \o e :
        a \in ProseBefore,
        b \in {<<>>} \cup OpeningFences,
        c \in Payloads,
        d \in {<<>>} \cup ClosingFences,
        e \in ProseAfter}

Capabilities == {CapabilityRaises, ImageOpenRaises} \cup {CapabilityText(t) : t \in Texts}

Pending == [kind |-> "pending"]

process_omr_sheet ==
    /\ call.fn = "process_omr_sheet"
    /\ call.outcome = Pending
    /\ call' = [call EXCEPT
                  !.outcome = process_omr_sheet_outcome(GEMINI_API_KEY, call.capability),
                  !.generate_content_calls =
                      GenerateContentCalls(GEMINI_API_KEY, call.capability)]
    /\ UNCHANGED <<GEMINI_API_KEY, scoreVars, aggVars, fileVars, concVars>>

extract_name_from_image ==
    /\ call.fn = "extract_name_from_image"
    /\ call.outcome = Pending
    /\ call' = [call EXCEPT
                  !.outcome = extract_name_from_image_outcome(GEMINI_API_KEY,
                                                              call.capability),
                  !.generate_content_calls =
                      GenerateContentCalls(GEMINI_API_KEY, call.capability)]
    /\ UNCHANGED <<GEMINI_API_KEY, scoreVars, aggVars, fileVars, concVars>>

process_omr_from_image_data ==
    /\ call.fn = "process_omr_from_image_data"
    /\ call.outcome = Pending
    /\ call' = [call EXCEPT
                  !.outcome = process_omr_from_image_data_outcome(GEMINI_API_KEY,
                                                                  call.capability),
                  !.generate_content_calls =
                      GenerateContentCalls(GEMINI_API_KEY, call.capability)]
    /\ UNCHANGED <<GEMINI_API_KEY, scoreVars, aggVars, fileVars, concVars>>

RegionProcessors ==
    {"process_omr_sheet", "extract_name_from_image", "process_omr_from_image_data"}

InitRegion ==
    /\ GEMINI_API_KEY \in BOOLEAN
    /\ call \in [fn : RegionProcessors, capability : Capabilities, outcome : {Pending},
                  generate_content_calls : {0}]
    /\ request = [path |-> "none"]
    /\ sheet = NoSheet
    /\ AggIdle
    /\ FilesIdle

NextRegion ==
    \/ process_omr_sheet
    \/ extract_name_from_image
    \/ process_omr_from_image_data

SpecRegion == InitRegion /\ [][NextRegion]_vars

\* C2: a region-processor call never raises to its caller: whatever the
\* capability does, unconfigured included, the call returns a value.
C2_NeverRaises == call.outcome.kind \in {"pending", "returned"}

(***************************************************************************)
(* The identity fields on every processing path, stored and listed.        *)
(***************************************************************************)

\* get_omr_sheets / get_omr_sheet: the row as it is returned, with the
\* percentage default and an empty student_name turned into None
ListedSheet(row) ==
    [row EXCEPT !.percentage = IF row.percentage = "" THEN "0%" ELSE @,
                !.student_name = IF @ = PyS(<<>>) THEN PyNone ELSE @]

get_omr_sheets ==
    /\ sheet.status = "ok"
    /\ sheet' = [ListedSheet(sheet) EXCEPT !.status = "listed"]
    /\ UNCHANGED <<request, regionVars, aggVars, fileVars, concVars>>

\* what a region processor can give with identity fields in it
ExtractedResults ==
    {ResultDict(EmptyDict, x) : x \in [IdentityFields -> ExtractedValues]}

\* one template and one answer key, both without entries: the identity
\* fields do not depend on them
SheetRequests ==
    IdentityRequests
    \cup UploadRequests({[total_questions |-> 0, answer_key |-> EmptyDict]}, ExtractedResults)
    \cup UploadByAnswerKeyRequests({EmptyDict}, ExtractedResults)
    \cup CroppedRequests({EmptyDict}, ExtractedResults)

InitSheets ==
    request \in SheetRequests /\ sheet = NoSheet /\ RegionIdle /\ AggIdle /\ FilesIdle

NextSheets ==
    \/ upload_omr_sheet
    \/ upload_omr_sheet_by_answer_key
    \/ process_cropped_by_answer_key
    \/ process_cropped_omr_by_answer_key
    \/ score_multiple_omr_crops
    \/ get_omr_sheets

SpecSheets == InitSheets /\ [][NextSheets]_vars

\* C11: on every processing path each identity field of a produced sheet,
\* as stored and as listed, is the no-value marker or a str that is not
\* empty after trimming.
C11_NoBlankIdentity ==
    sheet.status \in {"ok", "listed"}
        => \A f \in IdentityFields : sheet[f] = PyNone \/ Present(sheet[f])

(***************************************************************************)
(* Properties of the extraction inside the region processors.              *)
(***************************************************************************)

\* the call has been made with the capability configured and returning a text
Extracted ==
    /\ GEMINI_API_KEY
    /\ call.capability.kind = "text"
    /\ call.outcome # Pending

\* the payloads that parse as they stand
WellFormed == {p \in Payloads : json_loads(p).ok}

\* p wrapped in a fenced block, language-tagged or generic, with or without
\* prose around the block
Wrapped(p) ==
    {a \o b \o p \o d \o e :
        a \in ProseBefore, b \in OpeningFences, d \in ClosingFences, e \in ProseAfter}

\* C12: for every well-formed payload, the extraction of the payload wrapped
\* in a fenced block gives the caller the value that parsing the payload
\* directly gives.
C12_FencedSameAsDirect ==
    \A p \in WellFormed :
        (Extracted /\ call.capability.text \in Wrapped(p))
            => call.outcome = Returned(Parsed(json_loads(p)))

\* no part of the text parses: the text holds no structured payload
HoldsNoPayload(text) ==
    \A i \in 1..Len(text) : \A j \in i..Len(text) : ~json_loads(SubSeq(text, i, j)).ok

\* C13: for every raw text that holds no structured payload, the empty text
\* included, the extraction does not raise and returns an error value that
\* carries the raw text (leading and trailing whitespace aside).
C13_NoPayloadIsParseError ==
    (Extracted /\ HoldsNoPayload(call.capability.text))
        => /\ call.outcome.kind = "returned"
           /\ call.outcome.value.error
           /\ "raw_response" \in DOMAIN call.outcome.value
           /\ TrimmedOf(call.outcome.value.raw_response, call.capability.text)

(***************************************************************************)
(* Failing region calls on the single-region and the multi-region paths.   *)
(***************************************************************************)

\* what a failing region call gives a single-region endpoint: an exception
\* (the capability is not configured) or the dict of an except branch
FailedResults ==
    {Raised, FailedResult("Expecting value: line 1 column 1 (char 0)")}

FailureRequests ==
    UploadRequests({[total_questions |-> 1, answer_key |-> (<<"1">> :> PyS(<<"A">>))]},
                   FailedResults)
    \cup UploadByAnswerKeyRequests({(<<"1">> :> PyS(<<"A">>))}, FailedResults)
    \cup CroppedRequests({(<<"1">> :> PyS(<<"A">>))}, FailedResults)
    \cup PreCroppedRequests({(<<"1">> :> PyS(<<"A">>))}, {NoParams}, FailedResults)

InitFailures ==
    \/ InitAgg
    \/ request \in FailureRequests /\ sheet = NoSheet /\ RegionIdle /\ AggIdle /\ FilesIdle

NextFailures ==
    \/ upload_omr_sheet
    \/ upload_omr_sheet_by_answer_key
    \/ process_cropped_by_answer_key
    \/ process_cropped_omr_by_answer_key
    \/ start_multiple_omr_crops
    \/ process_region
    \/ finish_multiple_omr_crops

SpecFailures == InitFailures /\ [][NextFailures]_vars

\* a single-region request whose region call failed has been handled
SingleRegionFailed ==
    /\ request.path \in {"upload", "upload-by-answer-key", "cropped", "pre-cropped"}
    /\ sheet # NoSheet
    /\ request.result.kind = "raised" \/ "error" \in DOMAIN request.result

\* a multi-region request with a failed region has been handled
MultiRegionFailed == pc = "done" /\ FailedRegions # {}

\* C14: whenever a region call fails, on a single-region or the multi-region
\* path, the request still ends with a sheet record, and the record carries
\* the failure: an "error" among its other details, or an entry for each
\* failed region in its error list.
C14_FailureSurfaced ==
    /\ SingleRegionFailed
          => (sheet.status = "ok" /\ "error" \in DOMAIN sheet.other_details)
    /\ MultiRegionFailed
          => /\ sheet.status = "ok"
             /\ Len(sheet.processing_errors) = Cardinality(FailedRegions)

(***************************************************************************)
(* The order of the regions in the aggregation.                            *)
(***************************************************************************)

\* the regions taken k at a time
RegionSets(k) == {S \in SUBSET (1..NumRegions) : Cardinality(S) = k}

\* for each set of k regions, the merged responses the loop body can end with
\* when it runs on those regions in some order, each region with the result
\* its call gave
RECURSIVE MergedInSomeOrder(_)
MergedInSomeOrder(k) ==
    IF k = 0 THEN [S \in RegionSets(0) |-> {EmptyDict}]
    ELSE LET before == MergedInSomeOrder(k - 1) IN
         [S \in RegionSets(k) |->
            UNION {{RegionStep(merged, <<>>, i, region_results[i]).all_responses :
                        merged \in before[S \ {i}]} : i \in S}]

\* the merged responses the five regions can end with, over all orders
MergedInAnyOrder == MergedInSomeOrder(NumRegions)[1..NumRegions]

\* no question is returned by two successful regions with different answers
NoConflict ==
    \A i, j \in SucceededRegions :
        \A q \in DOMAIN region_results[i].responses \cap DOMAIN region_results[j].responses :
            region_results[i].responses[q] = region_results[j].responses[q]

\* C15 as stated: whatever the regions return, the merged mapping is the same
\* for every order the regions are processed in.
C15_AnyOrderSameMerge ==
    pc = "done" => MergedInAnyOrder = {all_responses}

\* C15 amended: when no question is returned by two successful regions with
\* different answers, the merged mapping is the same for every order the
\* regions are processed in.
C15_DisjointAnyOrderSameMerge ==
    (pc = "done" /\ NoConflict)
        => MergedInAnyOrder = {all_responses}

C15_Witness ==
    /\ pc = "done"
    /\ NoConflict
    /\ Cardinality(Returning(<<"1">>)) = 2
    /\ Returning(<<"1", "1">>) = {1}
    /\ FailedRegions = {2}
    /\ DOMAIN all_responses = {<<"1">>, <<"1", "1">>}

(***************************************************************************)
(* Two sheet-processing invocations served by the one event loop: a        *)
(* handler runs without interruption from one await to the next.           *)
(***************************************************************************)

\* how far utcnow() can advance while the two invocations are served
MaxClock == 2

Invocations == {"first", "second"}

\* the names a client can give the file it uploads
Filenames == {"sheet.png", "scan.png"}

\* the answer key both invocations name
InvocationKey == (<<"1">> :> PyS(<<"b">>))

\* an invocation as it arrives: its endpoint, the name of its file, and
\* whether its region processor raises
Arrivals ==
    [endpoint : {"upload", "process-cropped-omr-by-answer-key"},
     filename : Filenames, raises : BOOLEAN, pc : {"received"}, image_path : {PyNone}]

\* upload_omr_sheet has no await: the file is written, the sheet processed
\* and stored with image_path the file's path, or the file removed on HTTP 500
concurrent_upload_omr_sheet ==
    \E i \in DOMAIN invocations :
        LET inv == invocations[i]
            status == IF inv.raises THEN "http500" ELSE "done" IN
        /\ inv.endpoint = "upload"
        /\ inv.pc = "received"
        /\ uploads' = AfterUpload(uploads, inv.filename, i, status)
        /\ invocations' =
               [invocations EXCEPT ![i].pc = status,
                                   ![i].image_path = IF inv.raises THEN PyNone
                                                     ELSE UploadName(inv.filename)]
        /\ UNCHANGED <<scoreVars, regionVars, aggVars, templates, clock, earlier_sheets, db>>

\* image_bytes = await file.read(): another invocation can run meanwhile
concurrent_file_read ==
    \E i \in DOMAIN invocations :
        /\ invocations[i].endpoint = "process-cropped-omr-by-answer-key"
        /\ invocations[i].pc = "received"
        /\ invocations' = [invocations EXCEPT ![i].pc = "read"]
        /\ UNCHANGED <<scoreVars, regionVars, aggVars, fileVars, clock, earlier_sheets, db>>

\* the rest of process_cropped_omr_by_answer_key: the crop is saved under the
\* name the clock gives, the region processed, the mirror template found or
\* added and the sheet stored; nothing removes the crop when the region raises
concurrent_process_cropped_omr_by_answer_key ==
    \E i \in DOMAIN invocations :
        LET inv == invocations[i]
            name == SaveBytesName("omr_crop", clock) IN
        /\ inv.endpoint = "process-cropped-omr-by-answer-key"
        /\ inv.pc = "read"
        /\ uploads' = WriteFile(uploads, name, i)
        /\ templates' = IF inv.raises THEN templates
                        ELSE WithMirror(templates, InvocationKey)
        /\ invocations' =
               [invocations EXCEPT ![i].pc = IF inv.raises THEN "http500" ELSE "done",
                                   ![i].image_path = IF inv.raises THEN PyNone ELSE name]
        /\ UNCHANGED <<scoreVars, regionVars, aggVars, clock, earlier_sheets, db>>

\* a microsecond passes
utcnow_advances ==
    /\ clock < MaxClock
    /\ clock' = clock + 1
    /\ UNCHANGED <<scoreVars, regionVars, aggVars, fileVars, invocations, earlier_sheets, db>>

InitFiles ==
    /\ request = [path |-> "none"]
    /\ sheet = NoSheet
    /\ RegionIdle
    /\ AggIdle
    /\ uploads = EmptyDict
    /\ templates = EmptyDict
    /\ invocations \in [Invocations -> Arrivals]
    /\ clock = 0
    /\ earlier_sheets = <<>>
    /\ db = NoRows

NextFiles ==
    \/ concurrent_upload_omr_sheet
    \/ concurrent_file_read
    \/ concurrent_process_cropped_omr_by_answer_key
    \/ utcnow_advances

SpecFiles == InitFiles /\ [][NextFiles]_vars

\* the invocations that produced a sheet
Produced == {i \in DOMAIN invocations : invocations[i].pc = "done"}

\* C16: under any interleaving of two sheet-processing invocations no file of
\* the upload directory is written, overwritten or deleted by more than one
\* of them, and the stored image of each produced sheet is the file its own
\* invocation uploaded
C16_NoFileSharedByInvocations ==
    /\ \A n \in DOMAIN uploads : Cardinality(uploads[n].mutated_by) <= 1
    /\ \A i \in Produced :
           /\ invocations[i].image_path \in DOMAIN uploads
           /\ uploads[invocations[i].image_path].exists
           /\ uploads[invocations[i].image_path].content = i

(***************************************************************************)
(* The same request served a second time, on the tables and the upload     *)
(* directory its first run left behind.                                    *)
(***************************************************************************)

\* the sheet the request's handler stores when it runs on the templates table
SheetNow(req, table) ==
    CASE req.path = "upload" -> UploadSheet(table["template"], req.result)
      [] req.path = "upload-by-answer-key" ->
            UploadSheetByAnswerKey(req.answer_key, FindTemplate(table, MirrorName),
                                   req.result)
      [] req.path = "cropped" -> CroppedSheet(req.answer_key, req.result)
      [] req.path = "pre-cropped" ->
            PreCroppedSheet(req.answer_key, req.query, req.result)
      [] req.path = "multi-crop" ->
            MultiCropSheet(req.answer_key, req.query, req.result.responses, <<>>)

\* the templates table the handler leaves
TemplatesNow(req, table, status) ==
    CASE req.path = "upload" -> table
      [] req.path \in {"cropped", "pre-cropped"} /\ status = "http500" -> table
      [] OTHER -> WithMirror(table, req.answer_key)

\* the upload directory the handler leaves
UploadsNow(req, dir, status) ==
    IF req.path \in {"upload", "upload-by-answer-key"}
    THEN AfterUpload(dir, Filename(req), "request", status)
    ELSE WriteFile(dir, SaveBytesName("omr_crop", clock), "request")

\* the request is sent again after its sheet was stored
score_again ==
    /\ sheet.status = "ok"
    /\ earlier_sheets = <<>>
    /\ earlier_sheets' = <<sheet>>
    /\ sheet' = SheetNow(request, templates)
    /\ templates' = TemplatesNow(request, templates, sheet'.status)
    /\ uploads' = UploadsNow(request, uploads, sheet'.status)
    /\ UNCHANGED <<request, regionVars, aggVars, invocations, clock, db>>

NextRescore == NextScore \/ score_again

SpecRescore == InitScore /\ [][NextRescore]_vars

\* the values scoring gives a sheet
ScoredSheet(row) ==
    [correct_count |-> row.correct_count,
     wrong_count |-> row.wrong_count,
     total_questions |-> row.total_questions,
     percentage |-> row.percentage]

\* the template rows, each with the answer key it holds, are all still there
\* and as they were
TemplatesKept ==
    \A n \in DOMAIN templates : n \in DOMAIN templates' /\ templates'[n] = templates[n]

\* C17: the same responses scored twice against the same answer key give the
\* same counts, total_questions and percentage, and scoring modifies neither
\* the answer key of the request nor the answer key a template row holds
C17_ScoringIdempotent ==
    /\ [](earlier_sheets # <<>> => /\ sheet.status = "ok"
                                   /\ ScoredSheet(earlier_sheets[1]) = ScoredSheet(sheet))
    /\ [][request' = request /\ TemplatesKept]_vars

\* a sheet scored twice through the mirror template its first run added, with
\* an answer counted correct
C17_Witness ==
    /\ earlier_sheets # <<>>
    /\ request.path = "upload-by-answer-key"
    /\ request.existing.kind = "missing"
    /\ MirrorName \in DOMAIN templates
    /\ sheet.correct_count > 0

(***************************************************************************)
(* The number of files of a multi-crop request.                            *)
(***************************************************************************)

\* nothing the endpoint writes has been written
NothingChanged ==
    /\ region_results = <<>>
    /\ idx = 0
    /\ all_responses = EmptyDict
    /\ all_errors = <<>>
    /\ uploads = EmptyDict
    /\ templates = TemplatesOf(request)
    /\ sheet = NoSheet

\* C18: the multi-crop endpoint goes on only with exactly 5 files, the file
\* at upload position i being processed for the i-th of the ranges 1-10,
\* 11-20, 21-30, 31-40, 41-50; with any other number of files the request
\* ends with HTTP 400 and no region call, saved file, template or sheet
C18_FiveFilesOrNothing ==
    /\ (pc # "start" /\ request.files # NumRegions) => (pc = "http400" /\ NothingChanged)
    /\ pc = "http400" => request.files # NumRegions
    /\ Len(region_results) <= NumRegions
    /\ \A n \in 1..Len(all_errors) :
          LET i == FailedUpTo(Len(region_results))[n] IN
          all_errors[n] = ErrorEntry(question_ranges[i], region_results[i].message)
    /\ pc = "done" => /\ Len(region_results) = NumRegions
                      /\ DOMAIN uploads = {SaveBytesName("omr_crop", clock)}
                      /\ MirrorName \in DOMAIN templates
                      /\ sheet.status = "ok"

\* a request with six files was turned away
C18_Witness ==
    /\ pc = "http400"
    /\ request.files = NumRegions + 1
    /\ NothingChanged

(***************************************************************************)
(* The second parse, of a brace-delimited region of the raw text.          *)
(***************************************************************************)

\* the "{" of text[from..j] less its "}"
BraceDepth(text, from, j) ==
    Cardinality({k \in from..j : text[k] = "{"})
    - Cardinality({k \in from..j : text[k] = "}"})

\* the first balanced brace-delimited region of a text: from its first "{" to
\* the "}" that closes it
FirstBalancedRegion(text) ==
    LET opens == {i \in 1..Len(text) : text[i] = "{"}
        ends == IF opens = {} THEN {}
                ELSE {j \in Min(opens)..Len(text) : BraceDepth(text, Min(opens), j) = 0}
    IN  IF ends = {}
        THEN [found |-> FALSE]
        ELSE [found |-> TRUE, text |-> SubSeq(text, Min(opens), Min(ends))]

\* the call was made with the key configured and the capability gave a text
AnsweredText ==
    /\ call.outcome.kind # "pending"
    /\ GEMINI_API_KEY
    /\ call.capability.kind = "text"

\* C19: whenever the raw text holds a balanced brace-delimited region that
\* parses, every region processor returns what that region parses to; the
\* parse error is returned only when this second attempt fails as well
C19_BalancedRegionIsParsed ==
    AnsweredText =>
        LET region == FirstBalancedRegion(call.capability.text) IN
        (region.found /\ json_loads(region.text).ok)
            => call.outcome = Returned(Parsed(json_loads(region.text)))

(***************************************************************************)
(* The capability invocations of a region-processor call and of one        *)
(* multi-crop aggregation.                                                 *)
(***************************************************************************)

\* the capability invocations behind one result of process_omr_question_range:
\* none when the call raised (the key check comes first), else one
RegionInvocations(result) == IF result.kind = "raised" THEN 0 ELSE 1

\* the capability invocations of the first n region calls of the aggregation
RECURSIVE AggregationInvocations(_)
AggregationInvocations(n) ==
    IF n = 0 THEN 0
    ELSE AggregationInvocations(n - 1) + RegionInvocations(region_results[n])

InitCalls == InitRegion \/ InitAgg

NextCalls == NextRegion \/ NextAgg

SpecCalls == InitCalls /\ [][NextCalls]_vars

\* a region-processor call has ended
Ended == call.fn \in RegionProcessors /\ call.outcome.kind # "pending"

MaxId == 2

\* Column(Integer, primary_key=True) on SQLite: the largest id of the table
\* plus one, 1 on an empty table
NextId(rows) ==
    IF rows = <<>> THEN 1 ELSE Max({rows[i].id : i \in 1..Len(rows)}) + 1

\* db.delete(row) of the row with this id
WithoutRow(rows, id) ==
    LET Kept(row) == row.id # id IN SelectSeq(rows, Kept)

\* FirstNamed that finds no row, whatever the table holds
FirstNamed_NoneFound(rows, name) == [kind |-> "missing"]

\* db.query(Template).filter(Template.name == name).first()
FirstNamed(rows, name) ==
    LET named == {i \in 1..Len(rows) : rows[i].name = name} IN
    IF named = {} THEN [kind |-> "missing"]
    ELSE [kind |-> "found", template |-> rows[Min(named)]]

\* f"AK #{answer_key.id}: {answer_key.name}"
MirrorNameOf(id, name) == "AK #" \o ToString(id) \o ": " \o name

\* the names a client gives a template, the one name given to answer keys
TemplateNames == {"AK #1: key", "midterm"}

AnswerKeyNames == {"key"}

\* the answer keys create_template is sent and create_answer_key extracts
StoredKeys ==
    {(<<"1">> :> PyS(<<"b">>)),
     (<<"1">> :> PyS(<<"A", " ">>) @@ <<"2">> :> PyS(<<"b">>))}

\* what process_omr_sheet gives the uploads of the sequence
StoredResults ==
    {ResultDict((<<"1">> :> PyS(<<"B">>)), NoParams),
     ResultDict((<<"1">> :> PyS(<<" ", "a">>) @@ <<"2">> :> PyS(<<"B">>)), NoParams),
     Raised}

\* the OMRSheet row as the tables keep it
SheetRow(id, template_id, image_path, stored) ==
    [id |-> id, template_id |-> template_id, image_path |-> image_path,
     correct_count |-> stored.correct_count, wrong_count |-> stored.wrong_count,
     total_questions |-> stored.total_questions, percentage |-> stored.percentage]

create_template ==
    /\ NextId(db.templates) <= MaxId
    /\ \E name \in TemplateNames, answer_key \in StoredKeys :
          db' = [db EXCEPT !.templates =
                    Append(@, [id |-> NextId(db.templates), name |-> name,
                               total_questions |-> Cardinality(DOMAIN answer_key),
                               answer_key |-> answer_key])]
    /\ UNCHANGED <<scoreVars, regionVars, aggVars, fileVars, invocations, clock,
                   earlier_sheets>>

\* the template is deleted; the flush that detaches the sheets of a template
\* some sheet refers to fails on template_id, which is not nullable
delete_template ==
    /\ \E i \in 1..Len(db.templates) :
          /\ \A s \in 1..Len(db.omr_sheets) :
                db.omr_sheets[s].template_id # db.templates[i].id
          /\ db' = [db EXCEPT !.templates = WithoutRow(@, db.templates[i].id)]
    /\ UNCHANGED <<scoreVars, regionVars, aggVars, fileVars, invocations, clock,
                   earlier_sheets>>

create_answer_key ==
    /\ NextId(db.answer_keys) <= MaxId
    /\ \E name \in AnswerKeyNames, answer_key \in StoredKeys :
          db' = [db EXCEPT !.answer_keys =
                    Append(@, [id |-> NextId(db.answer_keys), name |-> name,
                               answer_key |-> answer_key])]
    /\ UNCHANGED <<scoreVars, regionVars, aggVars, fileVars, invocations, clock,
                   earlier_sheets>>

delete_answer_key ==
    /\ \E i \in 1..Len(db.answer_keys) :
          db' = [db EXCEPT !.answer_keys = WithoutRow(@, db.answer_keys[i].id)]
    /\ UNCHANGED <<scoreVars, regionVars, aggVars, fileVars, invocations, clock,
                   earlier_sheets>>

\* upload_omr_sheet_by_answer_key on the tables: the answer key is loaded by
\* id, the template found by the mirror name or added, the file written, and
\* the sheet scored against the template and stored, or the file removed
stored_upload_omr_sheet_by_answer_key ==
    \E i \in 1..Len(db.answer_keys), result \in StoredResults :
        LET answer_key == db.answer_keys[i]
            template_name == MirrorNameOf(answer_key.id, answer_key.name)
            existing == FirstNamed(db.templates, template_name)
            added == [id |-> NextId(db.templates), name |-> template_name,
                      total_questions |-> Cardinality(DOMAIN answer_key.answer_key),
                      answer_key |-> answer_key.answer_key]
            template == IF existing.kind = "found" THEN existing.template ELSE added
            stored == UploadSheet(template, result)
        IN  /\ existing.kind = "found" \/ NextId(db.templates) <= MaxId
            /\ NextId(db.omr_sheets) <= MaxId
            /\ request' = [path |-> "upload-by-answer-key",
                           answer_key_id |-> answer_key.id,
                           answer_key |-> answer_key.answer_key,
                           existing |-> existing, result |-> result]
            /\ sheet' = stored
            /\ uploads' = AfterUpload(uploads, "sheet.png", "request", stored.status)
            /\ db' = [db EXCEPT
                        !.templates = IF existing.kind = "found" THEN @
                                      ELSE Append(@, added),
                        !.omr_sheets =
                            IF stored.status = "ok"
                            THEN Append(@, SheetRow(NextId(db.omr_sheets), template.id,
                                                    UploadName("sheet.png"), stored))
                            ELSE @]
            /\ UNCHANGED <<regionVars, aggVars, templates, invocations, clock,
                           earlier_sheets>>

InitStore ==
    /\ request = [path |-> "none"]
    /\ sheet = NoSheet
    /\ RegionIdle
    /\ AggIdle
    /\ FilesIdle

NextStore ==
    \/ create_template
    \/ delete_template
    \/ create_answer_key
    \/ delete_answer_key
    \/ stored_upload_omr_sheet_by_answer_key

SpecStore == InitStore /\ [][NextStore]_vars

\* the last request was an upload by answer key and its sheet was stored
UploadedByAnswerKey == request.path = "upload-by-answer-key" /\ sheet.status = "ok"

\* C21: whatever templates and answer keys were created and deleted and
\* whatever was uploaded before, a sheet uploaded by answer key is scored
\* against the contents the answer key of that id had when it was loaded:
\* total_questions is the number of its entries and the counts and the
\* percentage are those of scoring the responses against it
C21_ScoredAgainstAnswerKey ==
    UploadedByAnswerKey =>
        ScoredSheet(sheet)
            = ScoredSheet(SingleScore(request.result.responses,
                                      [total_questions |->
                                           Cardinality(DOMAIN request.answer_key),
                                       answer_key |-> request.answer_key]))

(***************************************************************************)
(* Two requests that process sheets against the same answer key, served by *)
(* the one event loop uvicorn.run starts: the handlers are coroutines, and *)
(* one runs without interruption from one await to the next.               *)
(***************************************************************************)

\* the answer key row both requests name
KeyRow == [id |-> 1, name |-> "key", answer_key |-> InvocationKey]

\* a template an earlier request left under the mirror name
EarlierMirror ==
    [id |-> 1, name |-> MirrorNameOf(KeyRow.id, KeyRow.name), total_questions |-> 1,
     answer_key |-> InvocationKey]

\* the tables the two requests find: the answer key, and the mirror template
\* there or not
KeyStored ==
    {[NoRows EXCEPT !.answer_keys = <<KeyRow>>],
     [NoRows EXCEPT !.answer_keys = <<KeyRow>>, !.templates = <<EarlierMirror>>]}

MirrorEndpoints ==
    {"upload-by-answer-key", "process-cropped-omr-by-answer-key",
     "process-multiple-omr-crops"}

MirrorArrivals ==
    [endpoint : MirrorEndpoints, filename : {"sheet.png"}, raises : BOOLEAN,
     pc : {"received"}, image_path : {PyNone}]

\* what the region processor gives a request whose processing does not raise
InvocationResult == ResultDict((<<"1">> :> PyS(<<"B">>)), NoParams)

\* the create-or-reuse step: the template found under the mirror name, or the
\* row added for the answer key
MirrorRow(rows, answer_key) ==
    LET template_name == MirrorNameOf(answer_key.id, answer_key.name)
        existing == FirstNamed(rows, template_name) IN
    IF existing.kind = "found" THEN existing.template
    ELSE [id |-> NextId(rows), name |-> template_name,
          total_questions |-> Cardinality(DOMAIN answer_key.answer_key),
          answer_key |-> answer_key.answer_key]

\* the templates table after the create-or-reuse step
WithMirrorRow(rows, answer_key) ==
    IF FirstNamed(rows, MirrorNameOf(answer_key.id, answer_key.name)).kind = "found"
    THEN rows
    ELSE Append(rows, MirrorRow(rows, answer_key))

\* upload_omr_sheet_by_answer_key has no await: the mirror template is found
\* or added, the file written, and the sheet scored and stored, or the file
\* removed on HTTP 500
racing_upload_omr_sheet_by_answer_key ==
    \E i \in DOMAIN invocations :
        LET inv == invocations[i]
            template == MirrorRow(db.templates, KeyRow)
            stored == UploadSheet(template, IF inv.raises THEN Raised
                                            ELSE InvocationResult) IN
        /\ inv.endpoint = "upload-by-answer-key"
        /\ inv.pc = "received"
        /\ uploads' = AfterUpload(uploads, inv.filename, i, stored.status)
        /\ db' = [db EXCEPT
                    !.templates = WithMirrorRow(@, KeyRow),
                    !.omr_sheets =
                        IF stored.status = "ok"
                        THEN Append(@, SheetRow(NextId(db.omr_sheets), template.id,
                                                UploadName(inv.filename), stored))
                        ELSE @]
        /\ invocations' =
               [invocations EXCEPT
                   ![i].pc = IF stored.status = "ok" THEN "done" ELSE "http500",
                   ![i].image_path = IF stored.status = "ok"
                                     THEN UploadName(inv.filename) ELSE PyNone]
        /\ UNCHANGED <<scoreVars, regionVars, aggVars, templates, clock, earlier_sheets>>

\* await file.read(), once in the cropped handler and once per file in the
\* multi-crop handler: the other request can run meanwhile
racing_file_read ==
    \E i \in DOMAIN invocations :
        /\ invocations[i].endpoint \in {"process-cropped-omr-by-answer-key",
                                        "process-multiple-omr-crops"}
        /\ invocations[i].pc = "received"
        /\ invocations' = [invocations EXCEPT ![i].pc = "read"]
        /\ UNCHANGED <<scoreVars, regionVars, aggVars, fileVars, clock, earlier_sheets,
                       db>>

\* the rest of process_cropped_omr_by_answer_key: the crop is saved, the
\* region processed (a raise ends the request here), the mirror template
\* found or added and the sheet stored
racing_process_cropped_omr_by_answer_key ==
    \E i \in DOMAIN invocations :
        LET inv == invocations[i]
            name == SaveBytesName("omr_crop", clock)
            template == MirrorRow(db.templates, KeyRow)
            stored == CropScore(InvocationResult.responses, KeyRow.answer_key) IN
        /\ inv.endpoint = "process-cropped-omr-by-answer-key"
        /\ inv.pc = "read"
        /\ uploads' = WriteFile(uploads, name, i)
        /\ db' = IF inv.raises THEN db
                 ELSE [db EXCEPT
                         !.templates = WithMirrorRow(@, KeyRow),
                         !.omr_sheets = Append(@, SheetRow(NextId(db.omr_sheets),
                                                           template.id, name, stored))]
        /\ invocations' =
               [invocations EXCEPT ![i].pc = IF inv.raises THEN "http500" ELSE "done",
                                   ![i].image_path = IF inv.raises THEN PyNone ELSE name]
        /\ UNCHANGED <<scoreVars, regionVars, aggVars, templates, clock, earlier_sheets>>

\* the rest of process_multiple_omr_crops: the regions processed (a raise is
\* caught and listed), the first crop saved, the mirror template found or
\* added and the sheet stored
racing_process_multiple_omr_crops ==
    \E i \in DOMAIN invocations :
        LET inv == invocations[i]
            name == SaveBytesName("omr_crop", clock)
            template == MirrorRow(db.templates, KeyRow)
            stored == CropScore(IF inv.raises THEN EmptyDict
                                ELSE InvocationResult.responses, KeyRow.answer_key) IN
        /\ inv.endpoint = "process-multiple-omr-crops"
        /\ inv.pc = "read"
        /\ uploads' = WriteFile(uploads, name, i)
        /\ db' = [db EXCEPT
                    !.templates = WithMirrorRow(@, KeyRow),
                    !.omr_sheets = Append(@, SheetRow(NextId(db.omr_sheets),
                                                      template.id, name, stored))]
        /\ invocations' = [invocations EXCEPT ![i].pc = "done", ![i].image_path = name]
        /\ UNCHANGED <<scoreVars, regionVars, aggVars, templates, clock, earlier_sheets>>

InitMirror ==
    /\ request = [path |-> "none"]
    /\ sheet = NoSheet
    /\ RegionIdle
    /\ AggIdle
    /\ uploads = EmptyDict
    /\ templates = EmptyDict
    /\ invocations \in [Invocations -> MirrorArrivals]
    /\ clock = 0
    /\ earlier_sheets = <<>>
    /\ db \in KeyStored

NextMirror ==
    \/ racing_upload_omr_sheet_by_answer_key
    \/ racing_file_read
    \/ racing_process_cropped_omr_by_answer_key
    \/ racing_process_multiple_omr_crops
    \/ utcnow_advances

SpecMirror == InitMirror /\ [][NextMirror]_vars

\* the template rows that carry the mirror name of the answer key
Mirrors ==
    {i \in 1..Len(db.templates) :
        db.templates[i].name = MirrorNameOf(KeyRow.id, KeyRow.name)}

\* C22: however the two requests that process sheets against the same answer
\* key interleave, the templates table holds at most one row under the
\* mirror name of that answer key, and every sheet stored refers to that row
C22_OneMirrorTemplate ==
    /\ Cardinality(Mirrors) <= 1
    /\ \A s \in 1..Len(db.omr_sheets) :
          \E i \in Mirrors : db.omr_sheets[s].template_id = db.templates[i].id

\* both requests found no mirror template when they arrived, the one that
\* awaited its file had the other run meanwhile, and both stored a sheet
C22_Witness ==
    /\ invocations["first"].endpoint = "process-multiple-omr-crops"
    /\ invocations["second"].endpoint = "upload-by-answer-key"
    /\ invocations["first"].pc = "done"
    /\ invocations["second"].pc = "done"
    /\ invocations["second"].image_path \in DOMAIN uploads
    /\ Len(db.omr_sheets) = 2
    /\ db.omr_sheets[1].image_path = UploadName("sheet.png")
    /\ Cardinality(Mirrors) = 1
    /\ db.templates[1].answer_key = InvocationKey

(***************************************************************************)
(* Sheets uploaded and deleted one request after the other, and the files  *)
(* of the upload directory their rows refer to.                            *)
(***************************************************************************)

\* the template the uploads name
UploadTemplate ==
    [id |-> 1, name |-> "midterm", total_questions |-> 1, answer_key |-> InvocationKey]

\* the URL path _save_bytes returns for the file it wrote
UrlPath(name) == <<"/uploads/">> \o name

\* the file of the upload directory the image_path of a sheet row names
FileOf(image_path) ==
    IF image_path[1] = "/uploads/" THEN Tail(image_path) ELSE image_path

\* os.path.exists(sheet.image_path): the path of an upload is looked up in
\* the upload directory; a URL path names no file of the file system
PathExists(dir, image_path) ==
    /\ image_path[1] # "/uploads/"
    /\ image_path \in DOMAIN dir
    /\ dir[image_path].exists

\* upload_omr_sheet on the tables: the bytes sent at this time are written
\* under the client's file name, and the sheet is scored and stored, or the
\* file removed on HTTP 500
stored_upload_omr_sheet ==
    /\ clock < MaxClock
    /\ NextId(db.omr_sheets) <= MaxId
    /\ \E filename \in Filenames, result \in StoredResults :
          LET stored == UploadSheet(UploadTemplate, result) IN
          /\ request' = [path |-> "upload", template |-> UploadTemplate,
                         result |-> result, filename |-> filename]
          /\ sheet' = stored
          /\ uploads' = AfterUpload(uploads, filename, clock, stored.status)
          /\ db' = [db EXCEPT !.omr_sheets =
                       IF stored.status = "ok"
                       THEN Append(@, SheetRow(NextId(db.omr_sheets), UploadTemplate.id,
                                               UploadName(filename), stored)
                                      @@ [created_at |-> clock])
                       ELSE @]
    /\ clock' = clock + 1
    /\ UNCHANGED <<regionVars, aggVars, templates, invocations, earlier_sheets>>

\* process_cropped_omr_by_answer_key on the tables: the crop is saved under
\* the name the clock gives, the region processed (a raise ends the request
\* here), the mirror template found or added and the sheet stored with the
\* URL path of the crop
stored_process_cropped_omr_by_answer_key ==
    /\ clock < MaxClock
    /\ NextId(db.omr_sheets) <= MaxId
    /\ \E result \in StoredResults :
          LET name == SaveBytesName("omr_crop", clock)
              template == MirrorRow(db.templates, KeyRow)
              stored == PreCroppedSheet(KeyRow.answer_key, NoParams, result) IN
          /\ request' = [path |-> "pre-cropped", answer_key |-> KeyRow.answer_key,
                         query |-> NoParams, result |-> result]
          /\ sheet' = stored
          /\ uploads' = WriteFile(uploads, name, clock)
          /\ db' = IF stored.status = "http500" THEN db
                   ELSE [db EXCEPT
                           !.templates = WithMirrorRow(@, KeyRow),
                           !.omr_sheets =
                               Append(@, SheetRow(NextId(db.omr_sheets), template.id,
                                                  UrlPath(name), stored)
                                         @@ [created_at |-> clock])]
    /\ clock' = clock + 1
    /\ UNCHANGED <<regionVars, aggVars, templates, invocations, earlier_sheets>>

\* the file at the row's image_path is removed when there is one, then the row
delete_omr_sheet ==
    /\ \E i \in 1..Len(db.omr_sheets) :
          LET row == db.omr_sheets[i] IN
          /\ uploads' = IF PathExists(uploads, row.image_path)
                        THEN Unlink(uploads, row.image_path, clock)
                        ELSE uploads
          /\ db' = [db EXCEPT !.omr_sheets = WithoutRow(@, row.id)]
    /\ UNCHANGED <<scoreVars, regionVars, aggVars, templates, invocations, clock,
                   earlier_sheets>>

InitSheetFiles ==
    /\ request = [path |-> "none"]
    /\ sheet = NoSheet
    /\ RegionIdle
    /\ AggIdle
    /\ uploads = EmptyDict
    /\ templates = EmptyDict
    /\ invocations = NoInvocations
    /\ clock = 0
    /\ earlier_sheets = <<>>
    /\ db = [NoRows EXCEPT !.templates = <<UploadTemplate>>, !.answer_keys = <<KeyRow>>]

NextSheetFiles ==
    \/ stored_upload_omr_sheet
    \/ stored_process_cropped_omr_by_answer_key
    \/ delete_omr_sheet

SpecSheetFiles == InitSheetFiles /\ [][NextSheetFiles]_vars

\* C23: after any sequence of uploads, failed ones included, and of sheet
\* deletions, the image file of every sheet row still in the table is in the
\* upload directory and holds the bytes uploaded for that sheet
C23_ImageKept ==
    \A s \in 1..Len(db.omr_sheets) :
        LET row == db.omr_sheets[s]
            file == FileOf(row.image_path) IN
        /\ file \in DOMAIN uploads
        /\ uploads[file].exists
        /\ uploads[file].content = row.created_at

====
